---- MODULE Spec2Model ----
(***************************************************************************)
(* A model of openaddr/preview.py: render() and the functions it calls.   *)
(*                                                                         *)
(* Numbers.  The program computes in floating point; the model computes   *)
(* the same expressions in exact arithmetic over integers and fractions.  *)
(*   - Projected coordinates are integers in grid units, one grid unit    *)
(*     being EARTH_DIAMETER / 64 metres, so EARTH_DIAMETER is 64 here.     *)
(*   - A bounding box is carried in fiftieths of a grid unit, so that the *)
(*     padding "width / 50" of calculate_bounds is exact.                  *)
(*   - A fraction is a pair <<n, d>> with d > 0.                           *)
(*   - A standard deviation is carried by its square (the variance); the  *)
(*     test  mean - k*sd <= v <= mean + k*sd  is  (v - mean)^2 <= k^2*var. *)
(***************************************************************************)
EXTENDS Integers, Sequences, FiniteSets, TLC

\* ------------------------------------------------------------ bounds
\* Rows of the CSV file in the render specification.
MaxRows == 3
\* Rows of the CSV file in the ingestion specification.
MaxFileRows == 5
\* Size of the large cluster of repeated points given to calculate_bounds.
ClusterSize == 28

\* --------------------------------------------------------- constants
\* preview.py:19, in grid units (see above).
EARTH_DIAMETER == 64
\* preview.py:203, the side of a tile in pixels at resolution 1.
TILE_PIXELS == 256
\* preview.py:227, "pad by 2% on all sides": width / 50.
PAD_DIVISOR == 50
\* preview.py:216 and 217, the tolerance in standard deviations.
X_SDEVS == 5
Y_SDEVS == 3
\* preview.py:318, the default width.
DEFAULT_WIDTH == 668

\* ----------------------------------------------------------- helpers
Abs(n) == IF n < 0 THEN -n ELSE n

RECURSIVE GCD(_, _)
GCD(a, b) == IF b = 0 THEN a ELSE GCD(b, a % b)

\* A fraction in lowest terms.
Reduce(n, d) ==
    LET g == GCD(Abs(n), d)
    IN  <<n \div g, d \div g>>

\* Python's int() of the fraction n/d (d > 0): truncation toward zero.
int(n, d) == IF n >= 0 THEN n \div d ELSE -((-n) \div d)

RECURSIVE Pow2(_)
Pow2(k) == IF k = 0 THEN 1 ELSE 2 * Pow2(k - 1)

\* 2**zoom as a fraction; zoom may be negative.
TwoToThe(zoom) == IF zoom >= 0 THEN <<Pow2(zoom), 1>> ELSE <<1, Pow2(-zoom)>>

RECURSIVE SumSeq(_)
SumSeq(s) == IF s = <<>> THEN 0 ELSE Head(s) + SumSeq(Tail(s))

RECURSIVE MinSeq(_)
MinSeq(s) ==
    IF Len(s) = 1 THEN s[1]
    ELSE LET m == MinSeq(Tail(s)) IN IF s[1] < m THEN s[1] ELSE m

RECURSIVE MaxSeq(_)
MaxSeq(s) ==
    IF Len(s) = 1 THEN s[1]
    ELSE LET m == MaxSeq(Tail(s)) IN IF s[1] > m THEN s[1] ELSE m

\* What a call does: it returns a value or raises an exception.
Return(v) == [raised |-> "", value |-> v]
Raise(e) == [raised |-> e, value |-> <<>>]

\* All sequences over S of length at most n.
SeqsUpTo(S, n) == UNION {[1..k -> S] : k \in 0..n}

\* ------------------------------------------------ iterate_file_points
\* A CSV cell is <<tag, value>>:
\*   <<"num", v>>   a decimal string of v degrees,
\*   <<"text", 0>>  a string float() cannot parse,
\*   <<"nan", 0>>   the string "nan", which float() parses to NaN,
\*   <<"none", 0>>  no such column in the row (KeyError) or None (TypeError).
Cell(tag, v) == <<tag, v>>

\* float(cell) succeeds.
FloatOk(cell) == cell[1] \in {"num", "nan"}

\* a <= float(cell) <= b; every comparison with NaN is false.
FloatBetween(cell, a, b) == cell[1] = "num" /\ a <= cell[2] /\ cell[2] <= b

\* Variant of RowYield that does not test the longitude's range.
RowYield_lon_unchecked(row) ==
    IF ~(FloatOk(row.LON) /\ FloatOk(row.LAT)) THEN <<>>
    ELSE IF FloatBetween(row.LAT, -90, 90)
         THEN << <<row.LON[2], row.LAT[2]>> >>
         ELSE <<>>

\* One pass of the loop body of iterate_file_points over `row`: the point
\* the generator yields for it, as a one-element sequence, or <<>>.
RowYield(row) ==
    IF ~(FloatOk(row.LON) /\ FloatOk(row.LAT)) THEN <<>>
    ELSE IF FloatBetween(row.LON, -180, 180) /\ FloatBetween(row.LAT, -90, 90)
         THEN << <<row.LON[2], row.LAT[2]>> >>
         ELSE <<>>

RECURSIVE iterate_file_points(_)
iterate_file_points(rows) ==
    IF rows = <<>> THEN <<>>
    ELSE RowYield(Head(rows)) \o iterate_file_points(Tail(rows))

\* ------------------------------------------------------ project_points
\* Spherical Mercator northing of the latitudes the model uses, rounded to
\* the grid: R * ln(tan(pi/4 + lat*pi/360)) / (EARTH_DIAMETER / 64).
\* 45 degrees is 0.14027 of the earth's circumference, 89 degrees 0.75460.
MercatorY == [lat \in {-45, 0, 45, 89} |->
                CASE lat = -45 -> -9
                  [] lat = 0   -> 0
                  [] lat = 45  -> 9
                  [] lat = 89  -> 48]

\* The easting is linear: lon * EARTH_DIAMETER / 360.
MercatorX(lon) == (lon * EARTH_DIAMETER) \div 360

RECURSIVE project_points(_)
project_points(lonlats) ==
    IF lonlats = <<>> THEN <<>>
    ELSE << <<MercatorX(Head(lonlats)[1]), MercatorY[Head(lonlats)[2]]>> >>
         \o project_points(Tail(lonlats))

\* --------------------------------------------------------------- stats
\* stats(values) for a non-empty sequence: mean = sum / n and
\* stddev^2 = dev / n^3, where dev is the sum of (n*v - sum)^2.
RECURSIVE SumSqDev(_, _, _)
SumSqDev(s, n, sum) ==
    IF s = <<>> THEN 0
    ELSE (n * Head(s) - sum) * (n * Head(s) - sum) + SumSqDev(Tail(s), n, sum)

stats(values) ==
    LET n == Len(values)
        sum == SumSeq(values)
    IN  [n |-> n, sum |-> sum, dev |-> SumSqDev(values, n, sum)]

\* mean - k*stddev <= v <= mean + k*stddev
WithinSdevs(v, st, k) ==
    st.n * (st.n * v - st.sum) * (st.n * v - st.sum) <= k * k * st.dev

\* ----------------------------------------------------- calculate_bounds
Column(points, i) == [j \in 1..Len(points) |-> points[j][i]]

\* Variant of calculate_bounds whose two filters are one: a point counts
\* only when both its x and its y are within range.
calculate_bounds_joint(points) ==
    IF points = <<>> THEN Raise("ValueError")
    ELSE
    LET xs == Column(points, 1)
        ys == Column(points, 2)
        xst == stats(xs)
        yst == stats(ys)
        ok(p) == WithinSdevs(p[1], xst, X_SDEVS) /\ WithinSdevs(p[2], yst, Y_SDEVS)
        okay_xs == Column(SelectSeq(points, ok), 1)
        okay_ys == Column(SelectSeq(points, ok), 2)
    IN  IF okay_xs = <<>> \/ okay_ys = <<>> THEN Raise("ValueError")
        ELSE
        LET left == MinSeq(okay_xs)
            bottom == MinSeq(okay_ys)
            right == MaxSeq(okay_xs)
            top == MaxSeq(okay_ys)
            width == right - left
            height == top - bottom
        IN  Return(<<PAD_DIVISOR * left - width, PAD_DIVISOR * bottom - height,
                     PAD_DIVISOR * right + width, PAD_DIVISOR * top + height>>)

\* Variant of calculate_bounds that returns an empty box for no points.
calculate_bounds_empty_box(points) ==
    IF points = <<>> THEN Return(<<0, 0, 0, 0>>) ELSE calculate_bounds_joint(points)

\* Returns the box <<left, bottom, right, top>> in fiftieths of a grid unit,
\* or raises ValueError: zip(*points) of no points cannot be unpacked into xs, ys,
\* and min() of an empty list raises.
calculate_bounds(points) ==
    IF points = <<>> THEN Raise("ValueError")
    ELSE
    LET xs == Column(points, 1)
        ys == Column(points, 2)
        xst == stats(xs)
        yst == stats(ys)
        okx(p) == WithinSdevs(p[1], xst, X_SDEVS)
        oky(p) == WithinSdevs(p[2], yst, Y_SDEVS)
        okay_xs == Column(SelectSeq(points, okx), 1)
        okay_ys == Column(SelectSeq(points, oky), 2)
    IN  IF okay_xs = <<>> \/ okay_ys = <<>> THEN Raise("ValueError")
        ELSE
        LET left == MinSeq(okay_xs)
            bottom == MinSeq(okay_ys)
            right == MaxSeq(okay_xs)
            top == MaxSeq(okay_ys)
            width == right - left
            height == top - bottom
        IN  Return(<<PAD_DIVISOR * left - width, PAD_DIVISOR * bottom - height,
                     PAD_DIVISOR * right + width, PAD_DIVISOR * top + height>>)

\* -------------------------------------------------------- make_context
\* Returns [hsize, vsize, scale], the surface's size in pixels and hscale in
\* pixels per grid unit, or raises ZeroDivisionError: aspect divides by the
\* box's height, and hsize / aspect by its width.
\* Variant of make_context with vsize = round(hsize / aspect).
make_context_round(left, bottom, right, top, width, resolution) ==
    IF top - bottom = 0 \/ right - left = 0 THEN Raise("ZeroDivisionError")
    ELSE Return([hsize |-> resolution * width,
                 vsize |-> ((2 * resolution * width * (top - bottom)) + (right - left))
                               \div (2 * (right - left)),
                 scale |-> Reduce(resolution * width * PAD_DIVISOR, right - left)])

make_context(left, bottom, right, top, width, resolution) ==
    IF top - bottom = 0 THEN Raise("ZeroDivisionError")
    ELSE
    LET aspect == <<right - left, top - bottom>>
        hsize == resolution * width
    IN  IF aspect[1] = 0 THEN Raise("ZeroDivisionError")
        ELSE
        LET vsize == int(hsize * aspect[2], aspect[1])
            hscale == Reduce(hsize * PAD_DIVISOR, right - left)
        IN  Return([hsize |-> hsize, vsize |-> vsize, scale |-> hscale])

\* ------------------------------------------------------- calculate_zoom
\* The zoom is log2 of scale / scale_at_zero; this is that quotient.
calculate_zoom(scale, resolution) ==
    Reduce(scale[1] * EARTH_DIAMETER, scale[2] * resolution * TILE_PIXELS)

\* The integer k with 2^k <= n/d < 2^(k+1), for n, d > 0.
RECURSIVE FloorLog2(_, _)
FloorLog2(n, d) ==
    IF n < d THEN FloorLog2(2 * n, d) - 1
    ELSE IF n < 2 * d THEN 0
    ELSE FloorLog2(n, 2 * d) + 1

\* round(log2(n/d)): log2 of a fraction is never half way between two
\* integers, so the rounding mode does not matter.
RoundLog2(q) ==
    LET k == FloorLog2(q[1], q[2])
        a == IF k < 0 THEN q[1] * Pow2(-k) ELSE q[1]
        b == IF k > 0 THEN q[2] * Pow2(k) ELSE q[2]
    IN  IF a * a > 2 * b * b THEN k + 1 ELSE k

\* ----------------------------------------------------- get_map_features
\* itertools.product(range(r0, r1 + 1), range(c0, c1 + 1)): rows outer.
product(r0, r1, c0, c1) ==
    IF r1 < r0 \/ c1 < c0 THEN <<>>
    ELSE LET nc == c1 - c0 + 1
         IN  [i \in 1..((r1 - r0 + 1) * nc) |->
                 <<r0 + ((i - 1) \div nc), c0 + ((i - 1) % nc)>>]

\* 2**zoom * (x + EARTH_DIAMETER/2) / EARTH_DIAMETER, x in fiftieths.
TileColumn(zoom, x) ==
    <<TwoToThe(zoom)[1] * (2 * x + PAD_DIVISOR * EARTH_DIAMETER),
      TwoToThe(zoom)[2] * 2 * PAD_DIVISOR * EARTH_DIAMETER>>

\* 2**zoom * (EARTH_DIAMETER/2 - y) / EARTH_DIAMETER, y in fiftieths.
TileRow(zoom, y) ==
    <<TwoToThe(zoom)[1] * (PAD_DIVISOR * EARTH_DIAMETER - 2 * y),
      TwoToThe(zoom)[2] * 2 * PAD_DIVISOR * EARTH_DIAMETER>>

\* Variant of tile_plan with the columns in the outer loop.
tile_plan_transposed(xmin, ymin, xmax, ymax, resolution, scale) ==
    LET zoom == RoundLog2(calculate_zoom(scale, resolution))
        mincol == TileColumn(zoom, xmin)
        minrow == TileRow(zoom, ymax)
        maxcol == TileColumn(zoom, xmax)
        maxrow == TileRow(zoom, ymin)
        col_rows == product(int(mincol[1], mincol[2]), int(maxcol[1], maxcol[2]),
                            int(minrow[1], minrow[2]), int(maxrow[1], maxrow[2]))
    IN  [zoom |-> zoom,
         row_cols |-> [i \in 1..Len(col_rows) |-> <<col_rows[i][2], col_rows[i][1]>>]]

\* Variant of tile_plan without the "+ 1" of the two ranges.
tile_plan_exclusive(xmin, ymin, xmax, ymax, resolution, scale) ==
    LET zoom == RoundLog2(calculate_zoom(scale, resolution))
        mincol == TileColumn(zoom, xmin)
        minrow == TileRow(zoom, ymax)
        maxcol == TileColumn(zoom, xmax)
        maxrow == TileRow(zoom, ymin)
    IN  [zoom |-> zoom,
         row_cols |-> product(int(minrow[1], minrow[2]), int(maxrow[1], maxrow[2]) - 1,
                              int(mincol[1], mincol[2]), int(maxcol[1], maxcol[2]) - 1)]

\* Lines 130-137: the fetch zoom and the <<row, col>> pairs to request.
tile_plan(xmin, ymin, xmax, ymax, resolution, scale) ==
    LET zoom == RoundLog2(calculate_zoom(scale, resolution))
        mincol == TileColumn(zoom, xmin)
        minrow == TileRow(zoom, ymax)
        maxcol == TileColumn(zoom, xmax)
        maxrow == TileRow(zoom, ymin)
    IN  [zoom |-> zoom,
         row_cols |-> product(int(minrow[1], minrow[2]), int(maxrow[1], maxrow[2]),
                              int(mincol[1], mincol[2]), int(maxcol[1], maxcol[2]))]

\* A feature of a tile: its geometry type as the words of its name
\* (<<"Multi", "Polygon">> is "MultiPolygon"), the kind of its properties
\* (NoKind: the properties have no "kind"), and whether ogr can build a
\* geometry from its "geometry" member.
NoKind == "<no kind>"
Feature(id, type, kind, valid) == [id |-> id, type |-> type, kind |-> kind, valid |-> valid]

\* word in type: the substring test 'Polygon' in feature['geometry']['type'].
In(word, type) == \E i \in 1..Len(type) : type[i] = word

LANDUSE_KINDS == {"cemetery", "forest", "golf_course", "grave_yard", "meadow",
                  "park", "pitch", "wood"}
WATER_KINDS == {"basin", "lake", "ocean", "riverbank", "water"}
ROADS_KINDS == {"highway", "major_road", "minor_road", "rail", "path"}

\* The projected geometry appended to a layer. The kind is not part of an
\* ogr geometry; it is kept to say what was accepted.
projected_geom(feature) == [id |-> feature.id, type |-> feature.type, kind |-> feature.kind]

\* A loop over a collection raises with the list as far as it was filled.
RaiseWith(e, geoms) == [raised |-> e, value |-> geoms]

\* Variant of landuse_loop without the test of the kind.
RECURSIVE landuse_loop_any_kind(_, _)
landuse_loop_any_kind(features, landuse_geoms) ==
    IF features = <<>> THEN Return(landuse_geoms)
    ELSE LET feature == Head(features)
         IN  IF In("Polygon", feature.type)
             THEN IF ~feature.valid THEN RaiseWith("AttributeError", landuse_geoms)
                  ELSE landuse_loop_any_kind(Tail(features),
                                    Append(landuse_geoms, projected_geom(feature)))
             ELSE landuse_loop_any_kind(Tail(features), landuse_geoms)

\* Lines 151-154. properties.get('kind') of no kind is None, in no list.
RECURSIVE landuse_loop(_, _)
landuse_loop(features, landuse_geoms) ==
    IF features = <<>> THEN Return(landuse_geoms)
    ELSE LET feature == Head(features)
         IN  IF In("Polygon", feature.type)
             THEN IF feature.kind \in LANDUSE_KINDS
                  THEN IF ~feature.valid THEN RaiseWith("AttributeError", landuse_geoms)
                       ELSE landuse_loop(Tail(features),
                                         Append(landuse_geoms, projected_geom(feature)))
                  ELSE landuse_loop(Tail(features), landuse_geoms)
             ELSE landuse_loop(Tail(features), landuse_geoms)

\* Lines 156-159. properties['kind'] of no kind raises KeyError.
RECURSIVE water_loop(_, _)
water_loop(features, water_geoms) ==
    IF features = <<>> THEN Return(water_geoms)
    ELSE LET feature == Head(features)
         IN  IF In("Polygon", feature.type)
             THEN IF feature.kind = NoKind THEN RaiseWith("KeyError", water_geoms)
                  ELSE IF feature.kind \in WATER_KINDS
                  THEN IF ~feature.valid THEN RaiseWith("AttributeError", water_geoms)
                       ELSE water_loop(Tail(features),
                                       Append(water_geoms, projected_geom(feature)))
                  ELSE water_loop(Tail(features), water_geoms)
             ELSE water_loop(Tail(features), water_geoms)

\* Lines 161-164.
RECURSIVE roads_loop(_, _)
roads_loop(features, roads_geoms) ==
    IF features = <<>> THEN Return(roads_geoms)
    ELSE LET feature == Head(features)
         IN  IF In("LineString", feature.type)
             THEN IF feature.kind = NoKind THEN RaiseWith("KeyError", roads_geoms)
                  ELSE IF feature.kind \in ROADS_KINDS
                  THEN IF ~feature.valid THEN RaiseWith("AttributeError", roads_geoms)
                       ELSE roads_loop(Tail(features),
                                       Append(roads_geoms, projected_geom(feature)))
                  ELSE roads_loop(Tail(features), roads_geoms)
             ELSE roads_loop(Tail(features), roads_geoms)

\* ---------------------------------------------------------------- state
VARIABLES
    filename_or_url,  \* render's argument: [scheme, suffix] of the path or URL
    width,            \* render's argument
    resolution,       \* render's argument: 1 or 2
    service,          \* what the tile service holds (see TileJson)
    file,             \* the rows of the CSV file behind filename_or_url
    pc,               \* the call render is about to make, "done" or "failed"
    raised,           \* the exception that left render, "" for none
    failed_in,        \* the call that raised it, "" for none
    src_filename,     \* the suffix of the local file name, "" before it is known
    points,           \* render's list of projected points
    bounds,           \* <<xmin, ymin, xmax, ymax>>, <<>> before calculate_bounds
    surface,          \* <<hsize, vsize>> of the cairo surface, <<>> for none
    scale,            \* hscale, a fraction, <<>> before make_context
    zoom,             \* the fetch zoom of get_map_features
    row_cols,         \* the <<row, col>> pairs get_map_features iterates over
    requests,         \* the <<z, x, y>> of every HTTP GET issued, in order
    landuse_geoms,    \* the three lists of get_map_features
    water_geoms,
    roads_geoms,
    markers,          \* the points drawn as circles on the surface
    png               \* the file png_filename: [state, size]

vars == <<filename_or_url, width, resolution, service, file, pc, raised, failed_in,
          src_filename, points, bounds, surface, scale, zoom, row_cols, requests,
          landuse_geoms, water_geoms, roads_geoms, markers, png>>

inputs == <<filename_or_url, width, resolution, service, file>>
layers == <<landuse_geoms, water_geoms, roads_geoms>>

NoPng == [state |-> "absent", size |-> <<>>]

\* ------------------------------------------------------------- inputs
Row(lon, lat) == [LON |-> lon, LAT |-> lat]

\* The rows of the render specification: three valid rows, a row whose LON
\* is not a number, and a row whose LAT is out of range.
RenderRows == {Row(Cell("num", 0), Cell("num", 0)),
               Row(Cell("num", 90), Cell("num", 45)),
               Row(Cell("num", 180), Cell("num", -45)),
               Row(Cell("text", 0), Cell("num", 45)),
               Row(Cell("num", 90), Cell("num", 95))}

LonCells == {Cell("text", 0), Cell("none", 0), Cell("nan", 0),
             Cell("num", -180), Cell("num", 90), Cell("num", 181)}
LatCells == {Cell("text", 0), Cell("none", 0), Cell("nan", 0),
             Cell("num", 89), Cell("num", -45), Cell("num", -91)}
AllRows == {Row(lon, lat) : lon \in LonCells, lat \in LatCells}

Sources == {[scheme |-> "", suffix |-> ".csv"],
            [scheme |-> "https", suffix |-> ".zip"],
            [scheme |-> "ftp", suffix |-> ".csv"],
            [scheme |-> "", suffix |-> ".txt"]}

Widths == {128, DEFAULT_WIDTH}
Resolutions == {1, 2}

Polygon == <<"Polygon">>
MultiPolygon == <<"Multi", "Polygon">>
LineString == <<"LineString">>
MultiLineString == <<"Multi", "LineString">>
Point == <<"Point">>

\* The JSON bodies the tile service answers with.
EmptyTile == [landuse |-> <<>>, water |-> <<>>, roads |-> <<>>]
TileA ==
    [landuse |-> <<Feature(1, Polygon, "park", TRUE),
                   Feature(2, Polygon, "parking", TRUE),
                   Feature(3, Point, "park", TRUE),
                   Feature(4, MultiPolygon, "forest", TRUE)>>,
     water |-> <<Feature(5, MultiPolygon, "lake", TRUE),
                 Feature(6, Polygon, "swimming_pool", TRUE),
                 Feature(7, LineString, "water", TRUE)>>,
     roads |-> <<Feature(8, LineString, "highway", TRUE),
                 Feature(9, MultiLineString, "rail", TRUE),
                 Feature(10, LineString, "ferry", TRUE),
                 Feature(11, Polygon, "path", TRUE)>>]
TileB ==
    [landuse |-> <<Feature(12, Polygon, NoKind, TRUE),
                   Feature(1, Polygon, "park", TRUE),
                   Feature(13, Polygon, "lake", TRUE)>>,
     water |-> <<Feature(14, Polygon, "ocean", TRUE),
                 Feature(15, Point, NoKind, TRUE)>>,
     roads |-> <<Feature(16, MultiLineString, "minor_road", TRUE),
                 Feature(8, LineString, "highway", TRUE)>>]
\* A water polygon without a kind, and a geometry ogr cannot build.
TileNoKind ==
    [landuse |-> <<Feature(1, Polygon, "park", TRUE)>>,
     water |-> <<Feature(5, MultiPolygon, "lake", TRUE),
                 Feature(17, Polygon, NoKind, TRUE)>>,
     roads |-> <<Feature(8, LineString, "highway", TRUE)>>]
TileBadGeometry ==
    [landuse |-> <<Feature(4, MultiPolygon, "forest", TRUE),
                   Feature(18, Polygon, "wood", FALSE)>>,
     water |-> <<>>,
     roads |-> <<>>]

TileTemplates == <<EmptyTile, TileA, TileB>>
Services == 0..(Len(TileTemplates) - 1)

\* The body the tile service holds for a tile.
TileJson(svc, row, col) == TileTemplates[((row + col + svc) % Len(TileTemplates)) + 1]

\* What requests.get(url) and got.json() can do for a tile: the GET raises,
\* the body is not JSON, or the body is the service's or a malformed one.
Got(status, json) == [status |-> status, json |-> json]
Responses(svc, row, col) ==
    {Got("ok", TileJson(svc, row, col)), Got("ok", TileNoKind), Got("ok", TileBadGeometry),
     Got("ConnectionError", EmptyTile), Got("JSONDecodeError", EmptyTile)}

\* ------------------------------------------------------------- render
\* Variant of Abort that flushes the surface to the file on the way out.
Abort_flush(e) ==
    /\ pc' = "failed"
    /\ raised' = e
    /\ failed_in' = pc
    /\ png' = [state |-> "partial", size |-> surface]

\* An exception leaves render: render has no handler and no finally.
Abort(e) ==
    /\ pc' = "failed"
    /\ raised' = e
    /\ failed_in' = pc
    /\ png' = png

Goto(next) ==
    /\ pc' = next
    /\ UNCHANGED <<raised, failed_in, png>>

\* Line 30, get_local_filename (lines 77-98).
GetLocalFilename ==
    /\ pc = "get_local_filename"
    /\ \E downloaded \in BOOLEAN :
          IF filename_or_url.scheme \in {"", "file"}
          THEN src_filename' = filename_or_url.suffix /\ Goto("project_points")
          ELSE IF filename_or_url.scheme \notin {"http", "https"}
          THEN UNCHANGED src_filename /\ Abort("ValueError")
          ELSE IF downloaded
          THEN src_filename' = filename_or_url.suffix /\ Goto("project_points")
          ELSE UNCHANGED src_filename /\ Abort("RequestException")
    /\ UNCHANGED <<inputs, points, bounds, surface, scale, zoom, row_cols, requests,
                   layers, markers>>

\* Line 31: project_points consumes the generator iterate_file_points.
\* Opening the file, or the archive's first .csv entry, may fail.
ProjectPoints ==
    /\ pc = "project_points"
    /\ \E opened \in {"ok", "IOError", "IndexError"} :
          IF src_filename \notin {".csv", ".zip"}
          THEN UNCHANGED points /\ Abort("UnboundLocalError")
          ELSE IF opened = "IOError" \/ (opened = "IndexError" /\ src_filename = ".zip")
          THEN UNCHANGED points /\ Abort(opened)
          ELSE /\ points' = project_points(iterate_file_points(file))
               /\ Goto("calculate_bounds")
    /\ UNCHANGED <<inputs, src_filename, bounds, surface, scale, zoom, row_cols,
                   requests, layers, markers>>

\* Line 32.
CalculateBounds ==
    /\ pc = "calculate_bounds"
    /\ LET r == calculate_bounds(points)
       IN  IF r.raised # ""
           THEN UNCHANGED bounds /\ Abort(r.raised)
           ELSE bounds' = r.value /\ Goto("make_context")
    /\ UNCHANGED <<inputs, src_filename, points, surface, scale, zoom, row_cols,
                   requests, layers, markers>>

\* Lines 34-53: make_context, then the background. cairo may refuse the
\* surface.
MakeContext ==
    /\ pc = "make_context"
    /\ LET r == make_context(bounds[1], bounds[2], bounds[3], bounds[4], width, resolution)
       IN  \E created \in BOOLEAN :
              IF r.raised # ""
              THEN UNCHANGED <<surface, scale>> /\ Abort(r.raised)
              ELSE IF ~created
              THEN UNCHANGED <<surface, scale>> /\ Abort("cairo.Error")
              ELSE /\ surface' = <<r.value.hsize, r.value.vsize>>
                   /\ scale' = r.value.scale
                   /\ Goto("get_map_features")
    /\ UNCHANGED <<inputs, src_filename, points, bounds, zoom, row_cols, requests,
                   layers, markers>>

\* Lines 55-56 and 130-140: get_map_features up to its loop.
GetMapFeatures ==
    /\ pc = "get_map_features"
    /\ LET plan == tile_plan(bounds[1], bounds[2], bounds[3], bounds[4], resolution, scale)
       IN  /\ zoom' = plan.zoom
           /\ row_cols' = plan.row_cols
    /\ requests' = <<>>
    /\ landuse_geoms' = <<>>
    /\ water_geoms' = <<>>
    /\ roads_geoms' = <<>>
    /\ Goto("tile")
    /\ UNCHANGED <<inputs, src_filename, points, bounds, surface, scale, markers>>

\* Lines 147-166: one pass of the loop over row_cols.
FetchTile ==
    /\ pc = "tile"
    /\ Len(requests) < Len(row_cols)
    /\ LET row == row_cols[Len(requests) + 1][1]
           col == row_cols[Len(requests) + 1][2]
       IN  /\ requests' = Append(requests, <<zoom, col, row>>)
           /\ \E got \in Responses(service, row, col) :
                 IF got.status # "ok"
                 THEN UNCHANGED layers /\ Abort(got.status)
                 ELSE
                 LET l == landuse_loop(got.json.landuse, landuse_geoms)
                     w == water_loop(got.json.water, water_geoms)
                     r == roads_loop(got.json.roads, roads_geoms)
                 IN  /\ landuse_geoms' = l.value
                     /\ water_geoms' = IF l.raised = "" THEN w.value ELSE water_geoms
                     /\ roads_geoms' = IF l.raised = "" /\ w.raised = ""
                                       THEN r.value ELSE roads_geoms
                     /\ IF l.raised # "" THEN Abort(l.raised)
                        ELSE IF w.raised # "" THEN Abort(w.raised)
                        ELSE IF r.raised # "" THEN Abort(r.raised)
                        ELSE Goto("tile")
    /\ UNCHANGED <<inputs, src_filename, points, bounds, surface, scale, zoom,
                   row_cols, markers>>

\* Line 168 and lines 58-73: the layers and the points are drawn.
\* fill_geometries raises NotImplementedError for a geometry that is no
\* Polygon, MultiPolygon or Point.
Draw ==
    /\ pc = "tile"
    /\ Len(requests) = Len(row_cols)
    /\ LET fillable(g) == g.type \in {Polygon, MultiPolygon, Point}
       IN  IF \E i \in 1..Len(landuse_geoms) : ~fillable(landuse_geoms[i])
           THEN UNCHANGED markers /\ Abort("NotImplementedError")
           ELSE IF \E i \in 1..Len(water_geoms) : ~fillable(water_geoms[i])
           THEN UNCHANGED markers /\ Abort("NotImplementedError")
           ELSE markers' = points /\ Goto("write_to_png")
    /\ UNCHANGED <<inputs, src_filename, points, bounds, surface, scale, zoom,
                   row_cols, requests, layers>>

\* Line 75. Writing the file may fail, and may leave a part of it.
WriteToPng ==
    /\ pc = "write_to_png"
    /\ \E written \in {"complete", "partial", "absent"} :
          /\ pc' = IF written = "complete" THEN "done" ELSE "failed"
          /\ raised' = IF written = "complete" THEN "" ELSE "IOError"
          /\ failed_in' = IF written = "complete" THEN "" ELSE pc
          /\ png' = [state |-> written, size |-> IF written = "absent" THEN <<>> ELSE surface]
    /\ UNCHANGED <<inputs, src_filename, points, bounds, surface, scale, zoom,
                   row_cols, requests, layers, markers>>

\* ------------------------------------------------------ specifications
Start(stage) ==
    /\ pc = stage
    /\ raised = ""
    /\ failed_in = ""
    /\ src_filename = ""
    /\ surface = <<>>
    /\ scale = <<>>
    /\ zoom = 0
    /\ row_cols = <<>>
    /\ requests = <<>>
    /\ landuse_geoms = <<>>
    /\ water_geoms = <<>>
    /\ roads_geoms = <<>>
    /\ markers = <<>>
    /\ png = NoPng

\* A call of render.
Init ==
    /\ filename_or_url \in Sources
    /\ width \in Widths
    /\ resolution \in Resolutions
    /\ service \in Services
    /\ file \in SeqsUpTo(RenderRows, MaxRows)
    /\ points = <<>>
    /\ bounds = <<>>
    /\ Start("get_local_filename")

Next ==
    \/ GetLocalFilename
    \/ ProjectPoints
    \/ CalculateBounds
    \/ MakeContext
    \/ GetMapFeatures
    \/ FetchTile
    \/ Draw
    \/ WriteToPng

Spec == Init /\ [][Next]_vars

\* A call of render on a local CSV file of up to MaxFileRows rows.
IngestRows == RenderRows \ {Row(Cell("num", 0), Cell("num", 0))}
InitIngest ==
    /\ filename_or_url = [scheme |-> "", suffix |-> ".csv"]
    /\ width = DEFAULT_WIDTH
    /\ resolution = 1
    /\ service = 0
    /\ file \in SeqsUpTo(IngestRows, MaxFileRows) \cup SeqsUpTo(AllRows, 2)
    /\ points = <<>>
    /\ bounds = <<>>
    /\ Start("get_local_filename")

SpecIngest == InitIngest /\ [][Next]_vars

\* calculate_bounds, make_context and the tile plan of get_map_features as
\* functions: of a cluster of points with up to three more points, and of a
\* box on the grid.
PureXs == {-32, 0, 2, 32}
PureYs == {-9, 0, 48}
PurePoints == {<<x, y>> : x \in PureXs, y \in PureYs}
ClusterCentres == {<<0, 0>>, <<2, -9>>, <<32, 48>>}
Copies(p, n) == [i \in 1..n |-> p]
PointLists ==
    {Copies(c, m) \o Copies(p, k) \o Copies(q, j) :
        c \in ClusterCentres, m \in {1, ClusterSize},
        p \in PurePoints, k \in 0..2,
        q \in PurePoints, j \in 0..1}

BoxEdges == {-1600, -800, 0, 400, 1600}
Boxes == {<<xmin, ymin, xmax, ymax>> :
             xmin \in BoxEdges, ymin \in BoxEdges, xmax \in BoxEdges, ymax \in BoxEdges}

InitPure ==
    /\ filename_or_url = [scheme |-> "", suffix |-> ".csv"]
    /\ width \in Widths
    /\ resolution \in Resolutions
    /\ service = 0
    /\ file = <<>>
    /\ \/ /\ points \in PointLists
          /\ bounds = <<>>
          /\ Start("calculate_bounds")
       \/ /\ points = <<>>
          /\ bounds \in {b \in Boxes : b[1] < b[3] /\ b[2] < b[4]}
          /\ Start("make_context")

NextPure ==
    \/ CalculateBounds
    \/ MakeContext
    \/ GetMapFeatures

SpecPure == InitPure /\ [][NextPure]_vars

\* ========================================================== properties
Started == pc \notin {"get_local_filename", "project_points"}
           /\ failed_in \notin {"get_local_filename", "project_points"}

\* C1: the PNG is written only as render's last step; when any earlier call
\* fails (source resolution, ingestion, bounds, canvas, a tile request, a
\* tile's JSON, classification) render ends with the exception raised to the
\* caller and png_filename has not been written, in part or in full.
C1_PngWrittenLast ==
    /\ (pc = "failed" /\ failed_in # "write_to_png") => (png = NoPng /\ raised # "")
    /\ png # NoPng => (pc = "done" \/ (pc = "failed" /\ failed_in = "write_to_png"))
    /\ png.state = "complete" =>
          (pc = "done" /\ raised = "" /\ Len(requests) = Len(row_cols) /\ markers = points)

\* A tile request failed after other tiles were classified, and no PNG exists.
C1_Witness ==
    /\ pc = "failed"
    /\ failed_in = "tile"
    /\ raised = "ConnectionError"
    /\ Len(requests) >= 3
    /\ landuse_geoms # <<>>
    /\ png = NoPng

\* C2: every geometry in the landuse layer comes from a feature whose type
\* contains "Polygon" and whose kind is on the landuse list, every one in
\* the water layer from a Polygon type with a kind on the water list, every
\* one in the roads layer from a LineString type with a kind on the roads
\* list; a landuse Polygon of kind "parking" is in no layer.
C2_LayersHoldOnlyAllowed ==
    /\ \A i \in 1..Len(landuse_geoms) :
          /\ \E j \in 1..Len(landuse_geoms[i].type) : landuse_geoms[i].type[j] = "Polygon"
          /\ landuse_geoms[i].kind \in {"cemetery", "forest", "golf_course", "grave_yard",
                                        "meadow", "park", "pitch", "wood"}
    /\ \A i \in 1..Len(water_geoms) :
          /\ \E j \in 1..Len(water_geoms[i].type) : water_geoms[i].type[j] = "Polygon"
          /\ water_geoms[i].kind \in {"basin", "lake", "ocean", "riverbank", "water"}
    /\ \A i \in 1..Len(roads_geoms) :
          /\ \E j \in 1..Len(roads_geoms[i].type) : roads_geoms[i].type[j] = "LineString"
          /\ roads_geoms[i].kind \in {"highway", "major_road", "minor_road", "rail", "path"}
    /\ \A i \in 1..Len(landuse_geoms) : landuse_geoms[i].kind # "parking"
    /\ \A i \in 1..Len(water_geoms) : water_geoms[i].kind # "parking"
    /\ \A i \in 1..Len(roads_geoms) : roads_geoms[i].kind # "parking"

\* Both tiles with features were classified (TileA holds the parking
\* polygon, TileB a landuse polygon without a kind) and all layers are filled.
C2_Witness ==
    /\ pc = "write_to_png"
    /\ \E i \in 1..Len(landuse_geoms) : landuse_geoms[i].id = 4
    /\ \E i \in 1..Len(water_geoms) : water_geoms[i].id = 14
    /\ roads_geoms # <<>>

\* C3: calculate_bounds never returns a box of zero or negative size, and a
\* single repeated point fails in calculate_bounds, not with a division by
\* zero in make_context.
C3_BoxHasPositiveSize ==
    /\ bounds # <<>> => (bounds[3] > bounds[1] /\ bounds[4] > bounds[2])
    /\ ~(failed_in = "make_context" /\ raised = "ZeroDivisionError")

\* C4: with no ingested points calculate_bounds raises, and render ends
\* before a surface is created or a tile is requested.
C4_NoPointsAbortsInBounds ==
    (Started /\ points = <<>>) =>
        /\ pc \in {"calculate_bounds", "failed"}
        /\ pc = "failed" => (failed_in = "calculate_bounds" /\ raised = "ValueError")
        /\ bounds = <<>>
        /\ surface = <<>>
        /\ requests = <<>>
        /\ png = NoPng

\* Every row of a file of several rows was skipped and render has failed.
C4_Witness ==
    /\ pc = "failed"
    /\ failed_in = "calculate_bounds"
    /\ points = <<>>
    /\ Len(file) >= 2

\* C5: the box calculate_bounds returns is the reference box: L, R the least
\* and greatest x within 5 standard deviations of the mean x (y ignored),
\* B, T the least and greatest y within 3 standard deviations of the mean y
\* (x ignored), each side moved out by a fiftieth of R - L or T - B; and it
\* does not depend on the order of the points.
RefSum(vals) == SumSeq(vals)
RefDev(vals) ==
    LET n == Len(vals)
        sum == RefSum(vals)
        sq(i) == (n * vals[i] - sum) * (n * vals[i] - sum)
        partial[i \in 0..n] == IF i = 0 THEN 0 ELSE partial[i - 1] + sq(i)
    IN  partial[n]
\* (v - mean)^2 <= k^2 * variance, times n^3.
RefKept(vals, k) ==
    LET n == Len(vals)
        dev == RefDev(vals)
        sum == RefSum(vals)
    IN  {vals[i] : i \in {j \in 1..n :
            n * (n * vals[j] - sum) * (n * vals[j] - sum) <= k * k * dev}}
Least(S) == CHOOSE v \in S : \A u \in S : v <= u
Greatest(S) == CHOOSE v \in S : \A u \in S : v >= u
RefBox(pts) ==
    LET keptx == RefKept([i \in 1..Len(pts) |-> pts[i][1]], 5)
        kepty == RefKept([i \in 1..Len(pts) |-> pts[i][2]], 3)
        L == Least(keptx)
        R == Greatest(keptx)
        B == Least(kepty)
        T == Greatest(kepty)
    IN  <<50 * L - (R - L), 50 * B - (T - B), 50 * R + (R - L), 50 * T + (T - B)>>
Reverse(s) == [i \in 1..Len(s) |-> s[Len(s) + 1 - i]]

C5_BoundsAreReferenceBox ==
    (points # <<>> /\ bounds # <<>>) =>
        /\ bounds = RefBox(points)
        /\ calculate_bounds(Reverse(points)) = Return(bounds)

\* A box of positive size that leaves a point out on the right and a point
\* out above, from a list long enough for both filters to reject.
C5_Witness ==
    /\ bounds # <<>>
    /\ bounds[3] > bounds[1]
    /\ bounds[4] > bounds[2]
    /\ \E i \in 1..Len(points) : 50 * points[i][1] > bounds[3] + 50
    /\ \E i \in 1..Len(points) : 50 * points[i][2] > bounds[4] + 50
    /\ \E i \in 1..Len(points) : /\ 50 * points[i][2] > bounds[4] + 50
                                 /\ 50 * points[i][1] < bounds[3]
                                 /\ 50 * points[i][1] > bounds[1]

\* C6: the tiles get_map_features iterates over are the cartesian product
\* of an inclusive range of rows and an inclusive range of columns, each
\* tile once, and every tile of the zoom that the box reaches into is among
\* them, a tile's extent holding its west and north edge.
RequestedRows == {row_cols[i][1] : i \in 1..Len(row_cols)}
RequestedCols == {row_cols[i][2] : i \in 1..Len(row_cols)}
IsRange(S) == \A a \in S, b \in S : \A c \in a..b : c \in S
\* Column c spans [c, c + 1) * EARTH_DIAMETER / 2^zoom - EARTH_DIAMETER / 2.
BoxReachesCol(c) ==
    /\ 50 * EARTH_DIAMETER * (2 * c - Pow2(zoom)) <= 2 * Pow2(zoom) * bounds[3]
    /\ 2 * Pow2(zoom) * bounds[1] < 50 * EARTH_DIAMETER * (2 * (c + 1) - Pow2(zoom))
\* Row r spans EARTH_DIAMETER / 2 - [r, r + 1) * EARTH_DIAMETER / 2^zoom.
BoxReachesRow(r) ==
    /\ 2 * Pow2(zoom) * bounds[2] <= 50 * EARTH_DIAMETER * (Pow2(zoom) - 2 * r)
    /\ 50 * EARTH_DIAMETER * (Pow2(zoom) - 2 * (r + 1)) < 2 * Pow2(zoom) * bounds[4]

C6_TilesAreProductAndCoverBox ==
    pc = "tile" =>
        /\ Cardinality({row_cols[i] : i \in 1..Len(row_cols)}) = Len(row_cols)
        /\ {row_cols[i] : i \in 1..Len(row_cols)} = RequestedRows \X RequestedCols
        /\ IsRange(RequestedRows)
        /\ IsRange(RequestedCols)
        /\ zoom >= 0 =>
              /\ \A c \in 0..(Pow2(zoom) - 1) : BoxReachesCol(c) => c \in RequestedCols
              /\ \A r \in 0..(Pow2(zoom) - 1) : BoxReachesRow(r) => r \in RequestedRows

\* The east edge of the box lies on a column boundary and the south edge on
\* a row boundary, inside the tile grid, and several tiles are planned.
C6_Witness ==
    /\ pc = "tile"
    /\ zoom >= 2
    /\ Len(row_cols) >= 4
    /\ TileColumn(zoom, bounds[3])[1] % TileColumn(zoom, bounds[3])[2] = 0
    /\ TileRow(zoom, bounds[2])[1] % TileRow(zoom, bounds[2])[2] = 0
    /\ bounds[3] < 25 * EARTH_DIAMETER
    /\ bounds[2] > -25 * EARTH_DIAMETER

\* C7: the points are those of the rows whose LON and LAT are both numbers
\* with -180 <= lon <= 180 and -90 <= lat <= 90, in row order; no row makes
\* the ingestion raise; the same points give the bounds and the markers.
RowIsValid(row) ==
    /\ row.LON[1] = "num"
    /\ row.LAT[1] = "num"
    /\ row.LON[2] >= -180
    /\ row.LON[2] <= 180
    /\ row.LAT[2] >= -90
    /\ row.LAT[2] <= 90
ValidRows == SelectSeq(file, RowIsValid)

C7_PointsAreValidRowsInOrder ==
    /\ Started =>
          /\ Len(points) = Len(ValidRows)
          /\ \A i \in 1..Len(points) :
                points[i] = <<(ValidRows[i].LON[2] * EARTH_DIAMETER) \div 360,
                              MercatorY[ValidRows[i].LAT[2]]>>
    /\ failed_in = "project_points" =>
          raised \in {"IOError", "IndexError", "UnboundLocalError"}
    /\ bounds # <<>> => calculate_bounds(points) = Return(bounds)
    /\ pc \in {"write_to_png", "done"} => markers = points

\* Five rows, two with a LON that is no number and one with LAT 95: two
\* points, both drawn.
C7_Witness ==
    /\ pc = "done"
    /\ Len(file) = 5
    /\ Cardinality({i \in 1..5 : file[i].LON[1] = "text"}) = 2
    /\ Cardinality({i \in 1..5 : file[i].LAT = <<"num", 95>>}) = 1
    /\ Len(points) = 2
    /\ Len(markers) = 2

\* C8 as stated: the surface and the PNG are M * W pixels wide and
\* round(M * W / aspect) pixels high.
BoxWidth == bounds[3] - bounds[1]
BoxHeight == bounds[4] - bounds[2]
C8_HeightIsRounded ==
    /\ surface # <<>> =>
          /\ surface[1] = resolution * width
          /\ 2 * Abs(surface[2] * BoxWidth - resolution * width * BoxHeight) <= BoxWidth
    /\ png.state = "complete" => png.size = surface

\* C8 as amended: the surface and the PNG are M * W pixels wide and
\* int(M * W / aspect) pixels high, the quotient truncated.
C8_HeightIsTruncated ==
    /\ surface # <<>> =>
          /\ surface[1] = resolution * width
          /\ surface[2] * BoxWidth <= resolution * width * BoxHeight
          /\ resolution * width * BoxHeight < (surface[2] + 1) * BoxWidth
    /\ png.state = "complete" => png.size = surface

\* A PNG whose height was cut from a quotient with a fraction above a half.
C8_Witness ==
    /\ png.state = "complete"
    /\ 2 * ((resolution * width * BoxHeight) % BoxWidth) > BoxWidth
    /\ width = 668
    /\ png.size[1] = 668 * resolution

\* The state part of C9: the requests so far are the first tiles of the plan
\* in row-major order, each once, and each layer is the concatenation, in
\* that order, of what each tile's collection holds of accepted features,
\* in the collection's order. requests[i] = <<z, x, y>>.
RowMajorBefore(a, b) == a[3] < b[3] \/ (a[3] = b[3] /\ a[2] < b[2])
LanduseAccepted(f) == In("Polygon", f.type) /\ f.kind \in LANDUSE_KINDS
WaterAccepted(f) == In("Polygon", f.type) /\ f.kind \in WATER_KINDS
RoadsAccepted(f) == In("LineString", f.type) /\ f.kind \in ROADS_KINDS
Stripped(fs) == [i \in 1..Len(fs) |-> [id |-> fs[i].id, type |-> fs[i].type, kind |-> fs[i].kind]]
Served(i) == TileJson(service, requests[i][3], requests[i][2])
ExpectedLanduse ==
    LET acc[i \in 0..Len(requests)] ==
            IF i = 0 THEN <<>>
            ELSE acc[i - 1] \o Stripped(SelectSeq(Served(i).landuse, LanduseAccepted))
    IN  acc[Len(requests)]
ExpectedWater ==
    LET acc[i \in 0..Len(requests)] ==
            IF i = 0 THEN <<>>
            ELSE acc[i - 1] \o Stripped(SelectSeq(Served(i).water, WaterAccepted))
    IN  acc[Len(requests)]
ExpectedRoads ==
    LET acc[i \in 0..Len(requests)] ==
            IF i = 0 THEN <<>>
            ELSE acc[i - 1] \o Stripped(SelectSeq(Served(i).roads, RoadsAccepted))
    IN  acc[Len(requests)]
RequestedTiles == {requests[i] : i \in 1..Len(requests)}
PlannedTiles == {<<zoom, row_cols[i][2], row_cols[i][1]>> : i \in 1..Len(row_cols)}

C9_OneGetPerTileLayersInFetchOrder ==
    /\ \A i \in 1..Len(requests) : \A j \in 1..Len(requests) :
          i < j => RowMajorBefore(requests[i], requests[j])
    /\ RequestedTiles \subseteq PlannedTiles
    /\ \A t \in PlannedTiles : \A u \in RequestedTiles :
          RowMajorBefore(t, u) => t \in RequestedTiles
    /\ pc \in {"write_to_png", "done"} => RequestedTiles = PlannedTiles
    /\ pc # "failed" =>
          /\ landuse_geoms = ExpectedLanduse
          /\ water_geoms = ExpectedWater
          /\ roads_geoms = ExpectedRoads

IsPrefix(s, t) == Len(s) <= Len(t) /\ SubSeq(t, 1, Len(s)) = s

\* C9: one GET per tile in row-major order, each layer the concatenation in
\* fetch order of the accepted features of every tile fetched (duplicates
\* kept), and append-only: no step removes or reorders what a layer holds.
C9_Fetching ==
    /\ []C9_OneGetPerTileLayersInFetchOrder
    /\ [][/\ IsPrefix(landuse_geoms, landuse_geoms')
          /\ IsPrefix(water_geoms, water_geoms')
          /\ IsPrefix(roads_geoms, roads_geoms')
          /\ IsPrefix(requests, requests')]_vars

\* All tiles of a plan of several rows and columns were fetched, and the
\* park that two tiles hold is in the landuse layer twice.
C9_Witness ==
    /\ pc = "write_to_png"
    /\ Cardinality(RequestedRows) >= 2
    /\ Cardinality(RequestedCols) >= 2
    /\ \E i \in 1..Len(landuse_geoms) : \E j \in 1..Len(landuse_geoms) :
          i < j /\ landuse_geoms[i] = landuse_geoms[j]

\* C10: every requested <<z, x, y>> is a slippy-map index: z >= 0 and
\* 0 <= x < 2^z and 0 <= y < 2^z.
C10_RequestsAreTileIndices ==
    \A i \in 1..Len(requests) :
        /\ requests[i][1] >= 0
        /\ requests[i][2] >= 0
        /\ requests[i][3] >= 0
        /\ requests[i][2] < Pow2(requests[i][1])
        /\ requests[i][3] < Pow2(requests[i][1])

====
